---- MODULE Spec2Model ----
(***************************************************************************)
(* Model of the brainfuck interpreter of src/src/interpreter.rs, its       *)
(* symbol decoder (src/src/symbol.rs) and its driver loop                  *)
(* (src/src/main.rs, run_interpreter).                                     *)
(*                                                                         *)
(* Engine methods are operators on a record `self` that holds the fields   *)
(* of struct Interpreter together with the process's standard streams      *)
(* (stdin as the lines still unread, stdout as the bytes written).  Each   *)
(* method returns [self |-> the interpreter afterwards, result |-> the     *)
(* InterpreterResult].  A Rust panic is the result kind "Panic".           *)
(***************************************************************************)
EXTENDS Integers, Sequences, FiniteSets, TLC

(***************************************************************************)
(* Bounds of the model.                                                    *)
(***************************************************************************)
\* Tape capacity.  The program uses 30_000 (interpreter.rs:4); the model
\* keeps every comparison against MEM_SIZE and scales the number down.
MEM_SIZE == 3
\* Longest program enumerated exhaustively by the driver specification.
MaxProgLen == 2
\* Most lines waiting on standard input.
MaxInput == 1
\* Most interpret_symbol calls the free caller of Spec makes.
MaxCalls == 4

(***************************************************************************)
(* Machine integers.                                                       *)
(***************************************************************************)
\* u8::MAX, the largest value of a tape cell.
U8_MAX == 255
\* usize::MAX.  The checker's integers are narrower than a usize, so the
\* largest representable value stands for it; the code only ever compares
\* it with small numbers.
USIZE_MAX == 2147483647

\* u8::checked_add / u8::checked_sub: None is modelled as -1.
None == -1
checked_add(left, right) == IF left + right > U8_MAX THEN None ELSE left + right
checked_sub(left, right) == IF left - right < 0 THEN None ELSE left - right
\* i8::unsigned_abs
unsigned_abs(right) == IF right < 0 THEN 0 - right ELSE right
\* bitwise NOT of a usize
not_usize(x) == USIZE_MAX - x

safe_delta_u8_wrapping(left, right) ==
    IF right > 0 THEN (left + right) % (U8_MAX + 1)
    ELSE (left - unsigned_abs(right)) % (U8_MAX + 1)

safe_delta_u8(left, right) ==
    IF right > 0 THEN checked_add(left, right)
    ELSE checked_sub(left, unsigned_abs(right))

(***************************************************************************)
(* Symbols (symbol.rs).                                                    *)
(***************************************************************************)
InterpreterInstruction ==
    {"MovePtrRight", "MovePtrLeft", "IncrementPtr", "DecrementPtr",
     "PrintPtr", "ReadPtr", "LoopStart", "LoopEnd"}

Instruction(i) == [kind |-> "Instruction", v |-> i]
EOF == [kind |-> "EOF", v |-> ""]
Other(c) == [kind |-> "Other", v |-> c]

\* Characters of a program: the eight instruction characters and one
\* representative of every other character.
Chars == {">", "<", "+", "-", ".", ",", "[", "]", "x"}
\* Option<&char>::None, the result of characters.get past the end.
NoChar == "None"

from_char(c) ==
    IF c = NoChar THEN EOF
    ELSE CASE c = ">" -> Instruction("MovePtrRight")
           [] c = "<" -> Instruction("MovePtrLeft")
           [] c = "+" -> Instruction("IncrementPtr")
           [] c = "-" -> Instruction("DecrementPtr")
           [] c = "." -> Instruction("PrintPtr")
           [] c = "," -> Instruction("ReadPtr")
           [] c = "[" -> Instruction("LoopStart")
           [] c = "]" -> Instruction("LoopEnd")
           [] OTHER -> Other(c)

InterpreterSymbol ==
    {Instruction(i) : i \in InterpreterInstruction} \cup {EOF, Other("x")}

(***************************************************************************)
(* Machine state and results.                                              *)
(***************************************************************************)
Running == [tag |-> "Running", skip |-> 0]
Skipping(d) == [tag |-> "Skipping", skip |-> d]
Halted == [tag |-> "Halted", skip |-> 0]

\* InterpreterResult.  payload holds the fields of the error reason in
\* declaration order.
Ok == [kind |-> "Ok", reason |-> "", payload |-> <<>>]
Err(reason, payload) == [kind |-> "Err", reason |-> reason, payload |-> payload]
Panic(msg) == [kind |-> "Panic", reason |-> msg, payload |-> <<>>]
\* No call made yet.
NoResult == [kind |-> "None", reason |-> "", payload |-> <<>>]

Ret(self, result) == [self |-> self, result |-> result]

ptr_out_of_bounds(self) == Err("PtrOutOfBounds", <<self.data_ptr>>)
val_out_of_bounds_address(self) == Err("ValOutOfBounds", <<self.data_ptr>>)
val_out_of_bounds(self) == Err("ValOutOfBounds", <<self.memory[self.data_ptr]>>)
invalid_char == Err("InvalidChar", <<>>)
stack_underflow == Err("StackUnderflow", <<>>)
halted_machine == Err("HaltedMachine", <<>>)
mismatched_brackets(self) ==
    IF self.state.tag = "Skipping"
    THEN Err("MismatchedBrackets", <<self.instruction_ptr, self.state.skip>>)
    ELSE Panic("Not in a skipping state")
unprintable_byte(byte) == Err("UnprintableByte", <<byte>>)

(***************************************************************************)
(* Standard input and output (read_byte, print_char).                      *)
(***************************************************************************)
\* A line of standard input: the code points of its text, and whether its
\* bytes are valid UTF-8 at all (read_line fails on a line that is not).
Line(utf8_ok, s) == [utf8_ok |-> utf8_ok, s |-> s]
\* "\n", "\x7f\n", "e-acute\n" (U+00E9, two bytes in UTF-8), and a line of
\* invalid UTF-8.
Lines == {Line(TRUE, <<10>>), Line(TRUE, <<127, 10>>),
          Line(TRUE, <<233, 10>>), Line(FALSE, <<>>)}

\* char::len_utf8
len_utf8(c) == IF c < 128 THEN 1 ELSE IF c < 2048 THEN 2 ELSE IF c < 65536 THEN 3 ELSE 4

Some(v) == [tag |-> "Some", v |-> v]
NoByte == [tag |-> "None", v |-> 0]
Unwound == [tag |-> "Panic", v |-> 0]

\* read_byte() on the lines still unread: the byte it returns (or None, or
\* a panic) and the lines left.  At end of input read_line reads nothing and
\* the string stays empty.
read_byte(stdin) ==
    IF stdin = <<>> THEN [val |-> NoByte, stdin |-> stdin]
    ELSE LET line == Head(stdin)
             rest == Tail(stdin)
         IN  IF ~line.utf8_ok THEN [val |-> NoByte, stdin |-> rest]
             ELSE IF line.s = <<>> THEN [val |-> NoByte, stdin |-> rest]
             ELSE LET first_char == line.s[1]
                  IN  IF not_usize(len_utf8(first_char)) = 1
                      THEN [val |-> NoByte, stdin |-> rest]
                      \* encode_utf8 into a buffer of one byte panics when
                      \* the character needs more
                      ELSE IF len_utf8(first_char) > 1
                      THEN [val |-> Unwound, stdin |-> rest]
                      ELSE [val |-> Some(first_char), stdin |-> rest]

from_utf8_any_byte(byte_vec) == Some(byte_vec)

\* String::from_utf8 of a vector of one byte: a byte on its own is valid
\* UTF-8 exactly when it is below 0x80.
from_utf8(byte_vec) == IF byte_vec[1] <= 127 THEN Some(byte_vec) ELSE NoByte

\* print_char(byte): the string it printed, or None when it printed nothing.
print_char(byte) == from_utf8(<<byte>>)

(***************************************************************************)
(* The build profile: with overflow checks (debug) an arithmetic overflow  *)
(* on a usize panics, without them (release) it wraps.                     *)
(***************************************************************************)
VARIABLE overflow_checks

\* a - b on usize; None stands for the panic.
usize_sub(a, b) ==
    IF a >= b THEN a - b
    ELSE IF overflow_checks THEN None ELSE USIZE_MAX - (b - a) + 1
\* a + b on usize; None stands for the panic.
usize_add(a, b) ==
    IF a <= USIZE_MAX - b THEN a + b
    ELSE IF overflow_checks THEN None ELSE (a - USIZE_MAX) + b - 1

(***************************************************************************)
(* impl Interpreter (interpreter.rs).                                      *)
(***************************************************************************)
move_right_unchecked(self) == Ret([self EXCEPT !.data_ptr = @ + 1], Ok)

move_right(self) ==
    IF self.data_ptr + 1 < MEM_SIZE
    THEN Ret([self EXCEPT !.data_ptr = @ + 1], Ok)
    ELSE Ret(self, ptr_out_of_bounds(self))

move_left(self) ==
    IF self.data_ptr > 0
    THEN Ret([self EXCEPT !.data_ptr = @ - 1], Ok)
    ELSE Ret(self, ptr_out_of_bounds(self))

\* The reference is modelled by the index of the cell it points to.
mem_ref(self) == IF self.data_ptr < MEM_SIZE THEN self.data_ptr ELSE None

delta_data_cell(self, delta) ==
    LET ref == mem_ref(self)
    IN  IF ref # None
        THEN LET new_val == safe_delta_u8(self.memory[ref], delta)
             IN  IF new_val # None
                 THEN Ret([self EXCEPT !.memory[ref] = new_val], Ok)
                 ELSE Ret(self, val_out_of_bounds(self))
        ELSE Ret(self, ptr_out_of_bounds(self))

increment_cell(self) == delta_data_cell(self, 1)
decrement_cell(self) == delta_data_cell(self, -1)

print_ptr(self) ==
    LET ref == mem_ref(self)
    IN  IF ref # None
        THEN LET byte == self.memory[ref]
                 printed == print_char(byte)
             IN  IF printed.tag = "Some"
                 THEN Ret([self EXCEPT !.stdout = @ \o printed.v], Ok)
                 ELSE Ret(self, unprintable_byte(byte))
        ELSE Ret(self, ptr_out_of_bounds(self))

read_ptr(self) ==
    LET rb == read_byte(self.stdin)
        self1 == [self EXCEPT !.stdin = rb.stdin]
        ref == mem_ref(self1)
    IN  CASE rb.val.tag = "Panic" -> Ret(self1, Panic("encode_utf8: buffer too small"))
          [] rb.val.tag = "Some" ->
                IF ref # None
                THEN Ret([self1 EXCEPT !.memory[ref] = rb.val.v], Ok)
                ELSE Ret(self1, ptr_out_of_bounds(self1))
          [] OTHER -> Ret(self1, invalid_char)

enter_loop_pushes_next(self) ==
    LET ref == mem_ref(self)
    IN  IF ref # None
        THEN IF self.memory[ref] # 0
             THEN Ret([self EXCEPT !.stack = Append(@, self.instruction_ptr + 1),
                                   !.state = Running], Ok)
             ELSE Ret([self EXCEPT !.state = Skipping(1)], Ok)
        ELSE Ret(self, ptr_out_of_bounds(self))

enter_loop_always_pushes(self) ==
    LET ref == mem_ref(self)
    IN  IF ref # None
        THEN Ret([self EXCEPT !.stack = Append(@, self.instruction_ptr),
                              !.state = IF self.memory[ref] # 0 THEN Running
                                        ELSE Skipping(1)], Ok)
        ELSE Ret(self, ptr_out_of_bounds(self))

enter_loop(self) ==
    LET ref == mem_ref(self)
    IN  IF ref # None
        THEN IF self.memory[ref] # 0
             THEN Ret([self EXCEPT !.stack = Append(@, self.instruction_ptr),
                                   !.state = Running], Ok)
             ELSE Ret([self EXCEPT !.state = Skipping(1)], Ok)
        ELSE Ret(self, ptr_out_of_bounds(self))

exit_loop_jumps_past(self) ==
    IF self.stack # <<>>
    THEN Ret([self EXCEPT !.instruction_ptr = self.stack[Len(self.stack)] + 1,
                          !.stack = SubSeq(@, 1, Len(@) - 1)], Ok)
    ELSE Ret(self, stack_underflow)

exit_loop_keeps_entry(self) ==
    IF self.stack # <<>>
    THEN Ret([self EXCEPT !.instruction_ptr = self.stack[Len(self.stack)]], Ok)
    ELSE Ret(self, stack_underflow)

\* Vec::pop takes the last element.
exit_loop(self) ==
    IF self.stack # <<>>
    THEN Ret([self EXCEPT !.instruction_ptr = self.stack[Len(self.stack)],
                          !.stack = SubSeq(@, 1, Len(@) - 1)], Ok)
    ELSE Ret(self, stack_underflow)

next_instruction(self) ==
    LET n == usize_add(self.instruction_ptr, 1)
    IN  IF n = None THEN Ret(self, Panic("attempt to add with overflow"))
        ELSE Ret([self EXCEPT !.instruction_ptr = n], Ok)

get_instruction_ptr(self) == self.instruction_ptr

is_halted(self) == self.state.tag = "Halted"

halt(self) == [self EXCEPT !.state = Halted]

run_instruction_always_advances(self, instruction) ==
    LET advance == instruction # "LoopEnd"
        r == CASE instruction = "MovePtrRight" -> move_right(self)
               [] instruction = "MovePtrLeft" -> move_left(self)
               [] instruction = "IncrementPtr" -> increment_cell(self)
               [] instruction = "DecrementPtr" -> decrement_cell(self)
               [] instruction = "PrintPtr" -> print_ptr(self)
               [] instruction = "ReadPtr" -> read_ptr(self)
               [] instruction = "LoopStart" -> enter_loop(self)
               [] instruction = "LoopEnd" -> exit_loop(self)
    IN  IF advance /\ r.result.kind # "Panic"
        THEN LET n == next_instruction(r.self)
             IN  IF n.result.kind = "Ok" THEN Ret(n.self, r.result) ELSE n
        ELSE r

run_instruction(self, instruction) ==
    LET advance == instruction # "LoopEnd"
        r == CASE instruction = "MovePtrRight" -> move_right(self)
               [] instruction = "MovePtrLeft" -> move_left(self)
               [] instruction = "IncrementPtr" -> increment_cell(self)
               [] instruction = "DecrementPtr" -> decrement_cell(self)
               [] instruction = "PrintPtr" -> print_ptr(self)
               [] instruction = "ReadPtr" -> read_ptr(self)
               [] instruction = "LoopStart" -> enter_loop(self)
               [] instruction = "LoopEnd" -> exit_loop(self)
    IN  IF advance /\ r.result.kind = "Ok"
        THEN LET n == next_instruction(r.self)
             IN  IF n.result.kind = "Ok" THEN Ret(n.self, r.result) ELSE n
        ELSE r

\* The arms of the match of interpret_symbol, in the order of the source.
halted_any_falls_through(self) ==
    LET n == usize_add(self.instruction_ptr, 1)
    IN  IF n = None THEN Ret(self, Panic("attempt to add with overflow"))
        ELSE Ret([self EXCEPT !.instruction_ptr = n], Ok)

halted_any(self) == Ret(self, halted_machine)

skipping_loop_end_ignores_depth(self) ==
    next_instruction([self EXCEPT !.state = Running])

skipping_loop_end_keeps_zero(self) ==
    LET skip == usize_sub(self.state.skip, 1)
    IN  IF skip = None
        THEN Ret(self, Panic("attempt to subtract with overflow"))
        ELSE next_instruction([self EXCEPT !.state = IF skip >= 0 THEN Skipping(skip)
                                                     ELSE Running])

skipping_loop_end(self) ==
    LET skip == usize_sub(self.state.skip, 1)
    IN  IF skip = None
        THEN Ret(self, Panic("attempt to subtract with overflow"))
        ELSE next_instruction([self EXCEPT !.state = IF skip > 0 THEN Skipping(skip)
                                                     ELSE Running])

skipping_eof_halts(self) == Ret(halt(self), Ok)

skipping_eof(self) == Ret(self, mismatched_brackets(self))

skipping_loop_start_pushes(self) ==
    LET skip == usize_add(self.state.skip, 1)
    IN  IF skip = None
        THEN Ret(self, Panic("attempt to add with overflow"))
        ELSE next_instruction([self EXCEPT !.state = Skipping(skip),
                                           !.stack = Append(@, self.instruction_ptr)])

skipping_loop_start(self) ==
    LET skip == usize_add(self.state.skip, 1)
    IN  IF skip = None
        THEN Ret(self, Panic("attempt to add with overflow"))
        ELSE next_instruction([self EXCEPT !.state = Skipping(skip)])

skipping_any_stays(self) == Ret(self, Ok)

skipping_any(self) == next_instruction(self)

running_eof_advances(self) == next_instruction(halt(self))

running_eof(self) == Ret(halt(self), Ok)

running_instruction(self, instruction) == run_instruction(self, instruction)

running_other(self) == next_instruction(self)

interpret_symbol(self, symbol) ==
    LET state == self.state
    IN  CASE state.tag = "Halted" -> halted_any(self)
          [] state.tag = "Skipping" /\ symbol = Instruction("LoopEnd") ->
                skipping_loop_end(self)
          [] state.tag = "Skipping" /\ symbol = EOF -> skipping_eof(self)
          [] state.tag = "Skipping" /\ symbol = Instruction("LoopStart") ->
                skipping_loop_start(self)
          [] state.tag = "Skipping" /\ symbol \notin
                {Instruction("LoopEnd"), EOF, Instruction("LoopStart")} ->
                skipping_any(self)
          [] state.tag = "Running" /\ symbol = EOF -> running_eof(self)
          [] state.tag = "Running" /\ symbol.kind = "Instruction" ->
                running_instruction(self, symbol.v)
          [] state.tag = "Running" /\ symbol.kind = "Other" ->
                running_other(self)

(***************************************************************************)
(* State.                                                                  *)
(***************************************************************************)
VARIABLES
    memory,           \* Interpreter.memory
    data_ptr,         \* Interpreter.data_ptr
    instruction_ptr,  \* Interpreter.instruction_ptr
    stack,            \* Interpreter.stack, bottom first
    state,            \* Interpreter.state
    stdin,            \* lines of standard input not read yet
    stdout,           \* bytes written to standard output
    characters,       \* run_interpreter: the program text
    run,              \* run_interpreter: "Looping", or how the loop ended
    symbol,           \* the symbol of the latest interpret_symbol call
    result,           \* the result of the latest interpret_symbol call
    calls,            \* interpret_symbol calls made by the free caller
    open_loops,       \* loops entered at runtime minus loops exited
    skip_start,       \* while Skipping: the position of the LoopStart that began it
    skip_calls        \* while Skipping: interpret_symbol calls made since it began

vars == <<memory, data_ptr, instruction_ptr, stack, state, stdin, stdout,
          characters, run, symbol, result, calls, open_loops, skip_start,
          skip_calls, overflow_checks>>

engine == <<memory, data_ptr, instruction_ptr, stack, state>>

Self == [memory |-> memory, data_ptr |-> data_ptr,
         instruction_ptr |-> instruction_ptr, stack |-> stack,
         state |-> state, stdin |-> stdin, stdout |-> stdout]

\* Interpreter::new
new == [memory |-> [a \in 0 .. MEM_SIZE - 1 |-> 0], data_ptr |-> 0,
        instruction_ptr |-> 0, stack |-> <<>>, state |-> Running]

RECURSIVE SeqsUpTo(_, _)
SeqsUpTo(S, n) ==
    IF n = 0 THEN {<<>>}
    ELSE LET shorter == SeqsUpTo(S, n - 1)
         IN  shorter \cup {Append(q, x) : q \in shorter, x \in S}

\* The programs of the scenarios of the specification and some with nested
\* and with long-running loops.
Scenarios ==
    {<<"+", "+", "+", ".">>, <<"+", "[", "-", "]">>, <<"+", "[", "+", "]">>,
     <<">", ">", ">">>, <<"[", "[", "]", "]">>,
     <<"+", "[", "[", "-", "]", "]">>, <<",", "[", "-", "]", "-">>,
     <<",", "+", ".">>, <<"+", "[", ">", "[", "x", "]", "<", "-", "]">>}

Programs == SeqsUpTo(Chars, MaxProgLen) \cup Scenarios

InitEngine ==
    /\ memory = new.memory
    /\ data_ptr = new.data_ptr
    /\ instruction_ptr = new.instruction_ptr
    /\ stack = new.stack
    /\ state = new.state
    /\ stdin \in SeqsUpTo(Lines, MaxInput)
    /\ stdout = <<>>
    /\ overflow_checks \in BOOLEAN
    /\ run = "Looping"
    /\ symbol = EOF
    /\ result = NoResult
    /\ calls = 0
    /\ open_loops = 0
    /\ skip_start = 0
    /\ skip_calls = 0

\* A caller that owns a fresh interpreter and no program.
Init == InitEngine /\ characters = <<>>

\* main: the program text comes from the file.
DriverInit == InitEngine /\ characters \in Programs

(***************************************************************************)
(* Operations.                                                             *)
(***************************************************************************)
\* One call bf_interpreter.interpret_symbol(&sym) and its effect on the
\* interpreter and the streams.
Feed(sym) ==
    LET r == interpret_symbol(Self, sym)
    IN  /\ memory' = r.self.memory
        /\ data_ptr' = r.self.data_ptr
        /\ instruction_ptr' = r.self.instruction_ptr
        /\ stack' = r.self.stack
        /\ state' = r.self.state
        /\ stdin' = r.self.stdin
        /\ stdout' = r.self.stdout
        /\ symbol' = sym
        /\ result' = r.result
        /\ open_loops' =
             IF state = Running /\ r.result = Ok /\ sym = Instruction("LoopStart")
                /\ memory[data_ptr] # 0
             THEN open_loops + 1
             ELSE IF state = Running /\ r.result = Ok /\ sym = Instruction("LoopEnd")
             THEN open_loops - 1
             ELSE open_loops
        /\ skip_start' =
             IF r.self.state.tag # "Skipping" THEN 0
             ELSE IF state = Running THEN instruction_ptr ELSE skip_start
        /\ skip_calls' =
             IF r.self.state.tag # "Skipping" \/ state = Running THEN 0
             ELSE skip_calls + 1
        /\ UNCHANGED overflow_checks

\* Any caller of the public method: any symbol, in any state, also after a
\* fault or a halt.  A panic ends the process.
ApiCall ==
    /\ calls < MaxCalls
    /\ result.kind # "Panic"
    /\ \E sym \in InterpreterSymbol : Feed(sym)
    /\ calls' = calls + 1
    /\ UNCHANGED <<characters, run>>

\* Vec::get
get(v, i) == IF i < Len(v) THEN v[i + 1] ELSE NoChar

read_instruction(chars, bf_interpreter) ==
    from_char(get(chars, get_instruction_ptr(bf_interpreter)))

\* run_interpreter, one turn of the loop that ends it with the interpreter.
DriverBreak ==
    /\ run = "Looping"
    /\ is_halted(Self)
    /\ run' = "Ok"
    /\ UNCHANGED <<engine, stdin, stdout, characters, symbol, result, calls,
                   open_loops, skip_start, skip_calls, overflow_checks>>

DriverFeed_ignores_fault ==
    /\ run = "Looping"
    /\ ~is_halted(Self)
    /\ Feed(read_instruction(characters, Self))
    /\ run' = IF result'.kind = "Panic" THEN "Panic" ELSE "Looping"
    /\ UNCHANGED <<characters, calls>>

\* run_interpreter, one turn of the loop that feeds a symbol.
DriverFeed ==
    /\ run = "Looping"
    /\ ~is_halted(Self)
    /\ Feed(read_instruction(characters, Self))
    /\ run' = CASE result'.kind = "Err" -> "Err"
                [] result'.kind = "Panic" -> "Panic"
                [] OTHER -> "Looping"
    /\ UNCHANGED <<characters, calls>>

Next == ApiCall

DriverNext == DriverBreak \/ DriverFeed

Spec == Init /\ [][Next]_vars

DriverSpec == DriverInit /\ [][DriverNext]_vars

TypeOK ==
    /\ memory \in [0 .. MEM_SIZE - 1 -> 0 .. U8_MAX]
    /\ data_ptr \in Nat
    /\ instruction_ptr \in Nat
    /\ state.tag \in {"Running", "Skipping", "Halted"}
    /\ result.kind \in {"None", "Ok", "Err", "Panic"}

(***************************************************************************)
(* Properties.                                                             *)
(***************************************************************************)
\* The step is a call interpret_symbol(sym): every step changes the state
\* (a faulting call changes calls or run), and the only step that is not a
\* call is the driver's break on a halted interpreter.
Called(sym) ==
    /\ vars' # vars
    /\ ~(run = "Looping" /\ run' = "Ok")
    /\ symbol' = sym

CalledAny == \E sym \in InterpreterSymbol : Called(sym)

Finished == run # "Looping"

\* C1: the data pointer of every reachable state is inside the tape;
\* MoveRight on the last cell and MoveLeft on cell 0 fault with
\* PtrOutOfBounds(data_ptr) and do not move.
C1_DataPtrInBounds ==
    /\ [](0 <= data_ptr /\ data_ptr < MEM_SIZE)
    /\ [][/\ (state = Running /\ Called(Instruction("MovePtrRight"))
               /\ data_ptr = MEM_SIZE - 1)
              => (result' = Err("PtrOutOfBounds", <<data_ptr>>)
                  /\ data_ptr' = data_ptr)
          /\ (state = Running /\ Called(Instruction("MovePtrLeft"))
               /\ data_ptr = 0)
              => (result' = Err("PtrOutOfBounds", <<data_ptr>>)
                  /\ data_ptr' = data_ptr)]_vars

C1_Witness ==
    /\ data_ptr = MEM_SIZE - 1
    /\ symbol = Instruction("MovePtrRight")
    /\ result = Err("PtrOutOfBounds", <<MEM_SIZE - 1>>)

\* C2: a cell never wraps.  Increment stores v+1 when v < 255, Decrement
\* stores v-1 when v > 0; Increment on 255 and Decrement on 0 fault and
\* leave the cell as it was.
C2_CellNeverWraps ==
    [][/\ (state = Running /\ Called(Instruction("IncrementPtr")))
            => IF memory[data_ptr] < 255
               THEN /\ result' = Ok
                    /\ memory' = [memory EXCEPT ![data_ptr] = @ + 1]
               ELSE result'.kind = "Err" /\ memory' = memory
       /\ (state = Running /\ Called(Instruction("DecrementPtr")))
            => IF memory[data_ptr] > 0
               THEN /\ result' = Ok
                    /\ memory' = [memory EXCEPT ![data_ptr] = @ - 1]
               ELSE result'.kind = "Err" /\ memory' = memory]_vars

C2_Witness ==
    /\ symbol = Instruction("IncrementPtr")
    /\ result.kind = "Err"
    /\ memory[data_ptr] = 255

\* C3 as stated: an overflowing Increment or underflowing Decrement faults
\* with ValOutOfBounds carrying the data pointer and the attempted delta.
C3_AddressAndDelta ==
    result.reason = "ValOutOfBounds"
        => result.payload =
             <<data_ptr, IF symbol = Instruction("IncrementPtr") THEN 1 ELSE -1>>

\* C3 amended: an overflowing Increment or underflowing Decrement faults
\* with ValOutOfBounds carrying the unchanged value of the current cell
\* (255 on overflow, 0 on underflow); program `-` on a fresh machine faults
\* ValOutOfBounds(0).
C3_CellValue ==
    /\ [][/\ (state = Running /\ Called(Instruction("IncrementPtr"))
               /\ memory[data_ptr] = 255)
              => result' = Err("ValOutOfBounds", <<255>>)
          /\ (state = Running /\ Called(Instruction("DecrementPtr"))
               /\ memory[data_ptr] = 0)
              => result' = Err("ValOutOfBounds", <<0>>)]_vars
    /\ [](result.reason = "ValOutOfBounds"
            => result.payload = <<memory[data_ptr]>>)
    /\ []((characters = <<"-">> /\ Finished)
            => (run = "Err" /\ result = Err("ValOutOfBounds", <<0>>)))

C3_Witness ==
    /\ symbol = Instruction("IncrementPtr")
    /\ result = Err("ValOutOfBounds", <<255>>)
    /\ data_ptr = 0

\* C4: a call that returns a fault leaves tape, data pointer, instruction
\* pointer, stack and machine state as they were; MoveLeft at data_ptr = 0
\* faults PtrOutOfBounds(0).
C4_FaultChangesNothing ==
    [][/\ (CalledAny /\ result'.kind = "Err") => UNCHANGED engine
       /\ (state = Running /\ Called(Instruction("MovePtrLeft")) /\ data_ptr = 0)
            => result' = Err("PtrOutOfBounds", <<0>>)]_vars

C4_Witness ==
    /\ symbol = Instruction("MovePtrLeft")
    /\ result = Err("PtrOutOfBounds", <<0>>)
    /\ instruction_ptr > 0

\* C5: the length of the stack is the number of LoopStart executed in
\* Running on a nonzero cell minus the number of LoopEnd executed
\* successfully in Running; LoopStart on a zero cell and every symbol
\* processed while Skipping leave the stack alone.
C5_StackCountsOpenLoops ==
    /\ [](Len(stack) = open_loops)
    /\ [][(CalledAny /\ (state.tag = "Skipping"
                         \/ (state = Running /\ symbol' = Instruction("LoopStart")
                             /\ memory[data_ptr] = 0)))
            => stack' = stack]_vars

C5_Witness ==
    /\ Len(stack) = 1
    /\ symbol = Instruction("LoopEnd")
    /\ result = Ok

\* C6: once Halted, every call returns HaltedMachine and changes nothing.
C6_HaltedAbsorbs ==
    [][(state = Halted /\ CalledAny)
         => /\ result' = Err("HaltedMachine", <<>>)
            /\ UNCHANGED <<engine, stdin, stdout>>]_vars

C6_Witness ==
    /\ state = Halted
    /\ result = Err("HaltedMachine", <<>>)
    /\ symbol = Instruction("IncrementPtr")

\* C7: in Skipping(d), LoopStart leads to Skipping(d+1), LoopEnd to
\* Skipping(d-1) or, when d = 1, to Running, anything else but EOF keeps
\* Skipping(d); each of these calls succeeds and advances the instruction
\* pointer by 1.  Every reachable Skipping state has depth >= 1.
C7_SkippingDepth ==
    /\ [](state.tag = "Skipping" => state.skip >= 1)
    /\ [][\A sym \in InterpreterSymbol \ {EOF} :
            (state.tag = "Skipping" /\ Called(sym))
              => /\ result' = Ok
                 /\ instruction_ptr' = instruction_ptr + 1
                 /\ state' = CASE sym = Instruction("LoopStart") ->
                                    Skipping(state.skip + 1)
                               [] sym = Instruction("LoopEnd") ->
                                    IF state.skip > 1 THEN Skipping(state.skip - 1)
                                    ELSE Running
                               [] OTHER -> state]_vars

C7_Witness ==
    /\ state = Skipping(1)
    /\ symbol = Instruction("LoopEnd")
    /\ result = Ok

\* C8: EOF in Skipping(d) faults with MismatchedBrackets{instruction_ptr,
\* d} and the machine does not halt; program `[` on a zero cell faults
\* MismatchedBrackets{1, 1}.
C8_EofWhileSkipping ==
    /\ [][(state.tag = "Skipping" /\ Called(EOF))
            => /\ result' = Err("MismatchedBrackets", <<instruction_ptr, state.skip>>)
               /\ state' = state]_vars
    /\ []((characters = <<"[">> /\ Finished)
            => (run = "Err" /\ result = Err("MismatchedBrackets", <<1, 1>>)))

C8_Witness ==
    /\ state = Skipping(2)
    /\ symbol = EOF
    /\ result = Err("MismatchedBrackets", <<2, 2>>)

\* C9: LoopStart in Running on a nonzero cell pushes the position of this
\* LoopStart, stays Running and advances by 1; on a zero cell it pushes
\* nothing, becomes Skipping(1) and advances by 1.  Tape and data pointer
\* do not change.
C9_LoopStart ==
    [][(state = Running /\ Called(Instruction("LoopStart")))
         => /\ result' = Ok
            /\ instruction_ptr' = instruction_ptr + 1
            /\ memory' = memory
            /\ data_ptr' = data_ptr
            /\ IF memory[data_ptr] # 0
               THEN stack' = Append(stack, instruction_ptr) /\ state' = Running
               ELSE stack' = stack /\ state' = Skipping(1)]_vars

C9_Witness ==
    /\ stack = <<1>>
    /\ instruction_ptr = 2
    /\ state = Running
    /\ symbol = Instruction("LoopStart")

\* C10: LoopEnd in Running faults StackUnderflow on an empty stack;
\* otherwise it pops the top entry and the instruction pointer becomes
\* exactly that entry, where the driver next reads the LoopStart.
\* Program `]` faults StackUnderflow and `+[-]` ends Halted with cell 0 = 0.
C10_LoopEnd ==
    /\ [][(state = Running /\ Called(Instruction("LoopEnd")))
            => IF stack = <<>>
               THEN result' = Err("StackUnderflow", <<>>) /\ UNCHANGED engine
               ELSE /\ result' = Ok
                    /\ instruction_ptr' = stack[Len(stack)]
                    /\ stack' = SubSeq(stack, 1, Len(stack) - 1)
                    /\ state' = Running
                    /\ read_instruction(characters, Self') =
                         Instruction("LoopStart")]_vars
    /\ []((characters = <<"]">> /\ Finished)
            => (run = "Err" /\ result = Err("StackUnderflow", <<>>)))
    /\ []((characters = <<"+", "[", "-", "]">> /\ Finished)
            => (run = "Ok" /\ state = Halted /\ memory[0] = 0))

C10_Witness ==
    /\ characters = <<"+", "[", "-", "]">>
    /\ symbol = Instruction("LoopEnd")
    /\ result = Ok
    /\ instruction_ptr = 1
    /\ stack = <<>>

\* C11: across one call the instruction pointer never decreases, except for
\* a successful LoopEnd in Running, where it becomes the entry popped from
\* the stack, which is strictly smaller; every other successful call but
\* Running + EOF adds exactly 1; Running + EOF and every fault leave it.
C11_InstructionPtrSteps ==
    [][CalledAny =>
         /\ result'.kind = "Err" => instruction_ptr' = instruction_ptr
         /\ result' = Ok =>
              IF state = Running /\ symbol' = Instruction("LoopEnd")
              THEN /\ instruction_ptr' = stack[Len(stack)]
                   /\ instruction_ptr' < instruction_ptr
              ELSE IF state = Running /\ symbol' = EOF
              THEN instruction_ptr' = instruction_ptr
              ELSE instruction_ptr' = instruction_ptr + 1]_vars

C11_Witness ==
    /\ symbol = Instruction("LoopEnd")
    /\ result = Ok
    /\ state = Running
    /\ instruction_ptr = 1
    /\ calls = 4

\* C13: the driver stops at the first terminal result.  After a fault no
\* symbol is fed and the fault is the result of the run; after the halt no
\* symbol is fed and the run succeeds; the driver never gets HaltedMachine.
C13_DriverStopsAtFirstResult ==
    /\ [](result.reason # "HaltedMachine")
    /\ [](run = "Err" <=> result.kind = "Err")
    /\ [](run = "Ok" => (state = Halted /\ result = Ok))
    /\ [][run # "Looping" => UNCHANGED vars]_vars
    /\ [][state = Halted
            => (run' = "Ok"
                /\ UNCHANGED <<engine, symbol, result, stdin, stdout>>)]_vars

C13_Witness ==
    /\ run = "Err"
    /\ result = Err("StackUnderflow", <<>>)
    /\ instruction_ptr = 1

\* C14: Read in Running consumes one line.  If its first character is one
\* byte in UTF-8 the byte is stored in the current cell and the instruction
\* pointer advances; in every other case the call returns InvalidChar with
\* the cell unchanged, and never ends in any other way.
C14_ReadStoresOrInvalidChar ==
    [][(state = Running /\ Called(Instruction("ReadPtr")))
         => IF /\ stdin # <<>>
               /\ Head(stdin).utf8_ok
               /\ Head(stdin).s # <<>>
               /\ len_utf8(Head(stdin).s[1]) = 1
            THEN /\ result' = Ok
                 /\ memory' = [memory EXCEPT ![data_ptr] = Head(stdin).s[1]]
                 /\ instruction_ptr' = instruction_ptr + 1
                 /\ stdin' = Tail(stdin)
            ELSE /\ result' = Err("InvalidChar", <<>>)
                 /\ memory' = memory]_vars

\* C15: Print in Running appends exactly the byte of the current cell to
\* the output and advances when the byte is at most 0x7F, leaving tape, data
\* pointer and stack alone; otherwise it faults UnprintableByte(byte) and
\* appends nothing.  Program `+++.` prints byte 3 and halts.
C15_Print ==
    /\ [][(state = Running /\ Called(Instruction("PrintPtr")))
            => IF memory[data_ptr] <= 127
               THEN /\ result' = Ok
                    /\ stdout' = Append(stdout, memory[data_ptr])
                    /\ instruction_ptr' = instruction_ptr + 1
                    /\ UNCHANGED <<memory, data_ptr, stack>>
               ELSE /\ result' = Err("UnprintableByte", <<memory[data_ptr]>>)
                    /\ stdout' = stdout]_vars
    /\ []((characters = <<"+", "+", "+", ".">> /\ Finished)
            => (run = "Ok" /\ stdout = <<3>> /\ memory[0] = 3))

C15_Witness ==
    /\ symbol = Instruction("PrintPtr")
    /\ result = Err("UnprintableByte", <<128>>)
    /\ stdout = <<>>

\* C16: while Skipping, no call changes the tape, the data pointer or the
\* stack, consumes input or emits output.
C16_SkippingFrame ==
    [][(state.tag = "Skipping" /\ CalledAny)
         => UNCHANGED <<memory, data_ptr, stack, stdin, stdout>>]_vars

C16_Witness ==
    /\ state.tag = "Skipping"
    /\ symbol = Instruction("ReadPtr")
    /\ result = Ok
    /\ stdin # <<>>

(***************************************************************************)
(* Bracket structure of a program text; positions count from 0.            *)
(***************************************************************************)
\* Number of `[` minus number of `]` among the first i characters.
RECURSIVE Depth(_, _)
Depth(chars, i) ==
    IF i = 0 THEN 0
    ELSE Depth(chars, i - 1)
         + (IF chars[i] = "[" THEN 1 ELSE IF chars[i] = "]" THEN -1 ELSE 0)

Matched(chars) ==
    /\ \A i \in 0 .. Len(chars) : Depth(chars, i) >= 0
    /\ Depth(chars, Len(chars)) = 0

\* q holds the `]` that closes the `[` at p.
Closes(chars, p, q) ==
    /\ p < q /\ q < Len(chars)
    /\ chars[p + 1] = "[" /\ chars[q + 1] = "]"
    /\ Depth(chars, q + 1) = Depth(chars, p)
    /\ \A k \in p + 1 .. q : Depth(chars, k) > Depth(chars, p)

HasMatch(chars, p) == \E q \in 0 .. Len(chars) - 1 : Closes(chars, p, q)
MatchClose(chars, p) == CHOOSE q \in 0 .. Len(chars) - 1 : Closes(chars, p, q)
MatchOpen(chars, q) == CHOOSE p \in 0 .. Len(chars) - 1 : Closes(chars, p, q)

\* C17: on a program with matched brackets the driver never gets
\* StackUnderflow or MismatchedBrackets; a LoopEnd in Running at q returns
\* to the `[` that matches q; a skip begun at the `[` at p resumes Running
\* just after the matching `]`; a halted run has an empty stack.
C17_MatchedBrackets ==
    /\ [](Matched(characters)
            => /\ result.reason \notin {"StackUnderflow", "MismatchedBrackets"}
               /\ (state = Halted => stack = <<>>))
    /\ [][Matched(characters) =>
            /\ (state = Running /\ Called(Instruction("LoopEnd")))
                 => /\ result' = Ok
                    /\ instruction_ptr' = MatchOpen(characters, instruction_ptr)
            /\ (state.tag = "Skipping" /\ CalledAny /\ state' = Running)
                 => instruction_ptr' = MatchClose(characters, skip_start) + 1]_vars

C17_Witness ==
    /\ characters = <<"+", "[", ">", "[", "x", "]", "<", "-", "]">>
    /\ symbol = Instruction("LoopEnd")
    /\ state = Running
    /\ instruction_ptr = 6
    /\ stack = <<1>>

\* C18: under the driver every stack entry is the position of a `[` of the
\* program, the entries increase strictly from bottom to top, and each is
\* below the instruction pointer.
C18_StackEntries ==
    \A i \in 1 .. Len(stack) :
        /\ get(characters, stack[i]) = "["
        /\ stack[i] < instruction_ptr
        /\ i > 1 => stack[i - 1] < stack[i]

C18_Witness ==
    /\ stack = <<1, 2>>
    /\ instruction_ptr = 3

\* C19 as stated: a run is Halted only with an empty stack, for any program.
C19_HaltedStackEmpty == state = Halted => stack = <<>>

\* C19 amended: EOF in Running halts whatever the stack holds; the entries
\* left in a halted machine are positions of `[` that have no matching `]`,
\* so the stack of a halted run is empty when the brackets are matched.
C19_HaltedStackUnmatched ==
    /\ [][(state = Running /\ Called(EOF))
            => (result' = Ok /\ state' = Halted /\ stack' = stack)]_vars
    /\ [](state = Halted
            => \A i \in 1 .. Len(stack) : ~HasMatch(characters, stack[i]))

C19_Witness ==
    /\ characters = <<"+", "[">>
    /\ state = Halted
    /\ run = "Ok"
    /\ stack = <<1>>

\* C20: skipping ends.  When Skipping is entered with the instruction
\* pointer becoming p on a program of length n, at most n - p + 1 calls
\* later the machine is Running again or has returned MismatchedBrackets:
\* each call while Skipping adds 1 to the instruction pointer or is the
\* faulting EOF.
C20_SkippingEnds ==
    /\ [](state.tag = "Skipping"
            => LET n == Len(characters)
                   p == skip_start + 1
               IN  /\ instruction_ptr = p + skip_calls
                      - (IF result.reason = "MismatchedBrackets" THEN 1 ELSE 0)
                   /\ skip_calls <= n - p + 1
                   /\ skip_calls = n - p + 1
                        => result.reason = "MismatchedBrackets")
    /\ [][(state.tag = "Skipping" /\ CalledAny)
            => \/ result' = Ok /\ instruction_ptr' = instruction_ptr + 1
               \/ /\ result'.reason = "MismatchedBrackets"
                  /\ instruction_ptr = Len(characters)]_vars

C20_Witness ==
    /\ characters = <<"[", "x">>
    /\ state.tag = "Skipping"
    /\ result = Err("MismatchedBrackets", <<2, 1>>)
    /\ skip_calls = 2

====
